---- MODULE Spec2Model ----
(***************************************************************************)
(* ServiceNow -> Infoblox synchronizer (infoblox-importer.py) and the      *)
(* companion flush utility (flush_all_location_values.py).                 *)
(*                                                                         *)
(* Strings are sequences of character codes (code points), so that         *)
(* len(), slicing, str.split, str.strip and Python's string ordering are   *)
(* computed rather than assumed.                                           *)
(***************************************************************************)
EXTENDS Integers, Sequences, FiniteSets, TLC

(* ------------------------------ bounds -------------------------------- *)
\* largest number of rows the ServiceNow table holds in the model
MaxRows == 3
\* number of consecutive runs of a workflow
MaxRuns == 2
\* longest string handed to sanitize_value in the function-level check
MaxInputLen == 70

(* ------------------------- program constants -------------------------- *)
ENUM_MAX_LENGTH == 64
FLUSH_MAX_LEN == 64
EXT_ATTR_NAME == "Location"

(* ------------------------- character codes ---------------------------- *)
Slash == 47
Whitespace == {9, 10, 11, 12, 13, 32}

Range(s) == {s[i] : i \in 1..Len(s)}
RECURSIVE Pad(_, _)
Pad(c, n) ==
    IF n = 0 THEN <<>>
    ELSE IF n = 1 THEN <<c>>
    ELSE Pad(c, n \div 2) \o Pad(c, n - (n \div 2))

(* ---------------------- Python string primitives ---------------------- *)
\* Python sequence ordering: first differing element decides, a proper
\* prefix is smaller.
StrLess(a, b) ==
    \/ \E i \in 1..Len(a) :
          /\ i <= Len(b)
          /\ a[i] < b[i]
          /\ \A j \in 1..(i - 1) : a[j] = b[j]
    \/ /\ Len(a) < Len(b)
       /\ \A j \in 1..Len(a) : a[j] = b[j]

\* tuple ordering over tuples of strings
TupleLess(s, t) ==
    \/ \E i \in 1..Len(s) :
          /\ i <= Len(t)
          /\ StrLess(s[i], t[i])
          /\ \A j \in 1..(i - 1) : s[j] = t[j]
    \/ /\ Len(s) < Len(t)
       /\ \A j \in 1..Len(s) : s[j] = t[j]

\* the pieces of s between consecutive separators; `from` is the index after
\* the previous separator
RECURSIVE SplitFrom(_, _)
SplitFrom(s, from) ==
    LET seps == { i \in from..Len(s) : s[i] = Slash }
    IN  IF seps = {} THEN <<SubSeq(s, from, Len(s))>>
        ELSE LET next == CHOOSE i \in seps : \A j \in seps : i <= j
             IN  <<SubSeq(s, from, next - 1)>> \o SplitFrom(s, next + 1)

\* loc.split("/")
Split(s) == SplitFrom(s, 1)

RECURSIVE LStrip(_)
LStrip(s) ==
    IF Len(s) > 0 /\ s[1] \in Whitespace THEN LStrip(SubSeq(s, 2, Len(s))) ELSE s

RECURSIVE RStrip(_)
RStrip(s) ==
    IF Len(s) > 0 /\ s[Len(s)] \in Whitespace THEN RStrip(SubSeq(s, 1, Len(s) - 1)) ELSE s

\* str.strip()
Strip(s) == RStrip(LStrip(s))

\* sorted(<set of strings>)
RECURSIVE SortedStr(_)
SortedStr(S) ==
    IF S = {} THEN <<>>
    ELSE LET m == CHOOSE x \in S : \A y \in S \ {x} : StrLess(x, y)
         IN  <<m>> \o SortedStr(S \ {m})

\* sorted(<set of strings>, key=lambda loc: tuple(loc.split("/")))
RECURSIVE SortedByKey(_)
SortedByKey(S) ==
    IF S = {} THEN <<>>
    ELSE LET m == CHOOSE x \in S : \A y \in S \ {x} : TupleLess(Split(x), Split(y))
         IN  <<m>> \o SortedByKey(S \ {m})

\* x == y between Python objects: objects of different built-in types
\* (list, set) never compare equal
PyEq(x, y) == x.type = y.type /\ x.val = y.val
PyList(l) == [type |-> "list", val |-> l]
PySet(s) == [type |-> "set", val |-> s]

(* ----------------------------- sanitize ------------------------------- *)
TruncWarning(value) == [kind |-> "truncated", value |-> value, originals |-> <<>>]
DupWarning(sanitized, originals) ==
    [kind |-> "duplicate", value |-> sanitized, originals |-> originals]

sanitize_value_off_by_one(value) ==
    IF Len(value) > ENUM_MAX_LENGTH THEN SubSeq(value, 1, ENUM_MAX_LENGTH - 1) ELSE value

sanitize_value_identity(value) == value

\* value returned by sanitize_value
sanitize_value(value) ==
    IF Len(value) > ENUM_MAX_LENGTH THEN SubSeq(value, 1, ENUM_MAX_LENGTH) ELSE value

\* warnings logged by sanitize_value
sanitize_value_log(value) ==
    IF Len(value) > ENUM_MAX_LENGTH THEN <<TruncWarning(value)>> ELSE <<>>

\* sanitize_value of the flush utility
flush_sanitize_value(value, max_len) ==
    IF Len(value) > max_len THEN SubSeq(value, 1, max_len) ELSE value

flush_sanitize_value_log(value, max_len) ==
    IF Len(value) > max_len THEN <<TruncWarning(value)>> ELSE <<>>

(* --------------------------- remote systems --------------------------- *)
\* location names, as character codes
Name_A_B == <<65, 47, 66>>                                  \* "A/B"
Name_A_B_padded == <<32, 65, 47, 66, 32>>                   \* " A/B "
Name_Adash_B == <<65, 45, 47, 66>>                          \* "A-/B"
Name_US_NYC_HQ == <<85, 83, 47, 78, 89, 67, 47, 72, 81>>    \* "US/NYC/HQ"
Name_US_LA_West == <<85, 83, 47, 76, 65, 47, 87, 101, 115, 116>>  \* "US/LA/West"
Name_64 == Pad(65, ENUM_MAX_LENGTH)                         \* 64 x "A"
Name_65 == Name_64 \o <<66>>
Name_70a == Name_64 \o <<47, 67, 67, 67, 67, 67>>
Name_70b == Name_64 \o <<47, 68, 68, 68, 68, 68>>
CLEARED == <<67, 76, 69, 65, 82, 69, 68>>                   \* "CLEARED"

\* A row of the cmn_location result: <<>> has no "name" field, <<n>> has
\* name n (possibly the empty string).
RowWithoutName == <<>>
Row(n) == <<n>>
CandidateRows ==
    { RowWithoutName, Row(<<>>) } \cup
    { Row(n) : n \in { Name_A_B, Name_A_B_padded, Name_Adash_B, Name_US_NYC_HQ,
                       Name_US_LA_West, Name_64, Name_65, Name_70a, Name_70b } }

SnowTables == { T \in SUBSET CandidateRows : Cardinality(T) <= MaxRows }

\* An entry of list_values: <<>> has no "value" field, <<v>> has value v.
Entry(v) == <<v>>
RECURSIVE Entries(_)
Entries(vals) ==
    IF vals = <<>> THEN <<>> ELSE <<Entry(Head(vals))>> \o Entries(Tail(vals))

\* HTTP status codes the remote systems answer with
Statuses == {200, 201, 500}

\* A response to a GET: a transport exception, or a status with a body that
\* parses or not; `found` says whether the parsed array is non-empty.
GetResponses ==
    { [exc |-> TRUE, status |-> 0, json_ok |-> FALSE, found |-> FALSE] } \cup
    { [exc |-> FALSE, status |-> s, json_ok |-> j, found |-> f] :
        s \in Statuses, j \in BOOLEAN, f \in BOOLEAN }

\* A response to a PUT; `applied` says whether the remote system replaced
\* the list (after a timeout the client cannot know).
PutResponses ==
    { [exc |-> TRUE, status |-> 0, applied |-> a] : a \in BOOLEAN } \cup
    { [exc |-> FALSE, status |-> s, applied |-> (s \in {200, 201})] : s \in Statuses }

(* ------------------------------- state -------------------------------- *)
VARIABLES
    snow_table,      \* rows of cmn_location in ServiceNow
    list_values,     \* list_values of the EA definition in Infoblox
    pc,              \* position of the running workflow
    branch,          \* outcome of the comparison in main()
    snow_locations,  \* main(): set returned by get_snow_locations
    current_values,  \* main(): set read from the definition
    new_values,      \* main(): sorted list of desired values
    ea_ref,          \* reference handle returned by the Reader
    updated_values,  \* main(): set read back after the update
    calls,           \* requests issued in this run, in order
    warnings,        \* warnings logged in this run, in order
    exit_code,       \* exit status of the process
    run,             \* number of the current run
    prev,            \* summary of the previous run
    value,           \* sanitize_value: argument
    result           \* sanitize_value: <<returned value>> once called

vars == <<snow_table, list_values, pc, branch, snow_locations, current_values,
          new_values, ea_ref, updated_values, calls, warnings, exit_code, run,
          prev, value, result>>

mainVars == <<snow_locations, current_values, new_values, ea_ref, updated_values, branch>>

Call(kind, payload, resp) == [kind |-> kind, payload |-> payload, resp |-> resp]

(* ------------------------ Attribute Updater --------------------------- *)
\* keys of sanitized_mapping, in insertion order
RECURSIVE MappingKeys(_, _)
MappingKeys(values, acc) ==
    IF values = <<>> THEN acc
    ELSE LET k == sanitize_value(Head(values))
         IN  MappingKeys(Tail(values), IF k \in Range(acc) THEN acc ELSE Append(acc, k))

\* sanitized_mapping[k]: the original values that sanitize to k, in order
sanitized_mapping(values) ==
    [k \in Range(MappingKeys(values, <<>>)) |->
        SelectSeq(values, LAMBDA v : sanitize_value(v) = k)]

RECURSIVE TruncationWarnings(_)
TruncationWarnings(values) ==
    IF values = <<>> THEN <<>>
    ELSE sanitize_value_log(Head(values)) \o TruncationWarnings(Tail(values))

RECURSIVE DuplicateWarningsOver(_, _)
DuplicateWarningsOver(keys, mapping) ==
    IF keys = <<>> THEN <<>>
    ELSE (IF Len(mapping[Head(keys)]) > 1
          THEN <<DupWarning(Head(keys), mapping[Head(keys)])>> ELSE <<>>)
         \o DuplicateWarningsOver(Tail(keys), mapping)

\* warnings update_infoblox_ea_values logs before it sends the request
UpdateWarnings(values) ==
    TruncationWarnings(values)
    \o DuplicateWarningsOver(MappingKeys(values, <<>>), sanitized_mapping(values))

RECURSIVE SanitizeEach(_)
SanitizeEach(values) ==
    IF values = <<>> THEN <<>>
    ELSE <<sanitize_value(Head(values))>> \o SanitizeEach(Tail(values))

sanitized_values_keyed_by_original(values) == SanitizeEach(SortedStr(Range(values)))

sanitized_values_unsorted(values) == MappingKeys(values, <<>>)

\* sanitized_values = sorted(sanitized_mapping.keys()): the payload's values
sanitized_values(values) == SortedStr(DOMAIN sanitized_mapping(values))

put_accepts_any_status(resp) == ~resp.exc

\* the update is accepted: no exception and status in [200, 201]
PutOk(resp) == ~resp.exc /\ resp.status \in {200, 201}

(* ------------------------ Reader and Fetcher -------------------------- *)
get_accepts_any_status(resp) == ~resp.exc /\ resp.json_ok

\* a GET came back, with status 200 and a body that parses
GetOk(resp) == ~resp.exc /\ resp.status = 200 /\ resp.json_ok

\* get_infoblox_ea_definition returns: GetOk and the array is not empty
EaReadOk(resp) == GetOk(resp) /\ resp.found

\* {item["name"].strip() for item in results if "name" in item and item["name"]}
Locations(table) ==
    { Strip(r[1]) : r \in { r \in table : Len(r) = 1 /\ Len(r[1]) > 0 } }

\* {entry["value"] for entry in current_list if "value" in entry}
ValuesOf(list) == { e[1] : e \in { e \in Range(list) : Len(e) = 1 } }

NumPuts(cs) == Cardinality({ i \in 1..Len(cs) : cs[i].kind = "ib_put" })

SnowResponses == { r \in GetResponses : r.exc \/ r.found }

\* the list a completed synchronization of `table` leaves in Infoblox
SyncedList(table) == Entries(sanitized_values(SortedByKey(Locations(table))))

InitialLists(table) ==
    { <<>>, Entries(<<CLEARED>>), <<<<>>, Entry(Name_A_B)>>, SyncedList(table) }

NoPrev == [ran |-> FALSE, exit_code |-> 0, puts |-> 0]

Fresh ==
    /\ pc = "Idle"
    /\ branch = "none"
    /\ snow_locations = {}
    /\ current_values = {}
    /\ new_values = <<>>
    /\ ea_ref = ""
    /\ updated_values = {}
    /\ calls = <<>>
    /\ warnings = <<>>
    /\ exit_code = 0

Init ==
    /\ snow_table \in SnowTables
    /\ list_values \in InitialLists(snow_table)
    /\ Fresh
    /\ run = 1
    /\ prev = NoPrev
    /\ value = <<>>
    /\ result = <<>>

\* get_snow_locations(), called first by main()
GetSnowLocations(resp) ==
    /\ pc = "Idle"
    /\ calls' = Append(calls, Call("snow_get", <<>>, resp))
    /\ IF GetOk(resp)
       THEN /\ snow_locations' = Locations(snow_table)
            /\ pc' = "FetchedDesired"
            /\ exit_code' = exit_code
       ELSE /\ snow_locations' = snow_locations
            /\ pc' = "Done"
            /\ exit_code' = 1
    /\ UNCHANGED <<snow_table, list_values, branch, current_values, new_values,
                   ea_ref, updated_values, warnings, run, prev, value, result>>

\* main(): get_infoblox_ea_definition, the sort and the comparison
ReadCurrentAndCompare(resp) ==
    /\ pc = "FetchedDesired"
    /\ calls' = Append(calls, Call("ib_get", <<>>, resp))
    /\ IF EaReadOk(resp)
       THEN LET cur == ValuesOf(list_values)
                new == SortedByKey(snow_locations)
            IN  /\ current_values' = cur
                /\ new_values' = new
                /\ ea_ref' = EXT_ATTR_NAME
                /\ IF PyEq(PyList(new), PySet(cur))
                   THEN /\ branch' = "NoChangeNeeded"
                        /\ pc' = "Done"
                   ELSE /\ branch' = "Updating"
                        /\ pc' = "Updating"
                /\ exit_code' = exit_code
       ELSE /\ UNCHANGED <<current_values, new_values, ea_ref, branch>>
            /\ pc' = "Done"
            /\ exit_code' = 1
    /\ UNCHANGED <<snow_table, list_values, snow_locations, updated_values,
                   warnings, run, prev, value, result>>

\* update_infoblox_ea_values(ea_ref, new_values)
UpdateEaValues(resp) ==
    /\ pc = "Updating"
    /\ LET payload == sanitized_values(new_values)
       IN  /\ warnings' = warnings \o UpdateWarnings(new_values)
           /\ calls' = Append(calls, Call("ib_put", payload, resp))
           /\ list_values' = IF resp.applied THEN Entries(payload) ELSE list_values
    /\ IF PutOk(resp)
       THEN pc' = "Verifying" /\ exit_code' = exit_code
       ELSE pc' = "Done" /\ exit_code' = 1
    /\ UNCHANGED <<snow_table, mainVars, run, prev, value, result>>

verify_read_skipped(resp) ==
    /\ pc = "Verifying"
    /\ pc' = "Done"
    /\ UNCHANGED <<snow_table, list_values, mainVars, calls, warnings, exit_code,
                   run, prev, value, result>>

\* main(): the verification read after the update
VerifyRead(resp) ==
    /\ pc = "Verifying"
    /\ calls' = Append(calls, Call("ib_get", <<>>, resp))
    /\ IF EaReadOk(resp)
       THEN /\ updated_values' = ValuesOf(list_values)
            /\ branch' = "Verified"
            /\ exit_code' = exit_code
       ELSE /\ UNCHANGED <<updated_values, branch>>
            /\ exit_code' = 1
    /\ pc' = "Done"
    /\ UNCHANGED <<snow_table, list_values, snow_locations, current_values,
                   new_values, ea_ref, warnings, run, prev, value, result>>

\* the process is invoked again, nothing else having touched either system
StartRun ==
    /\ pc = "Done"
    /\ run < MaxRuns
    /\ run' = run + 1
    /\ prev' = [ran |-> TRUE, exit_code |-> exit_code, puts |-> NumPuts(calls)]
    /\ pc' = "Idle"
    /\ branch' = "none"
    /\ snow_locations' = {}
    /\ current_values' = {}
    /\ new_values' = <<>>
    /\ ea_ref' = ""
    /\ updated_values' = {}
    /\ calls' = <<>>
    /\ warnings' = <<>>
    /\ exit_code' = 0
    /\ UNCHANGED <<snow_table, list_values, value, result>>

Next ==
    \/ \E resp \in SnowResponses : GetSnowLocations(resp)
    \/ \E resp \in GetResponses : ReadCurrentAndCompare(resp)
    \/ \E resp \in PutResponses : UpdateEaValues(resp)
    \/ \E resp \in GetResponses : VerifyRead(resp)
    \/ StartRun

Spec == Init /\ [][Next]_vars

(* --------------------------- flush workflow --------------------------- *)
flush_payload_empty == <<>>

\* the values of the flush payload {"list_values": [{"value": "CLEARED"}]}
flush_payload == <<CLEARED>>

\* lists the attribute can hold when the flush utility is started
FlushInitialLists ==
    { SyncedList(T) : T \in SnowTables } \cup InitialLists({})

FlushInit ==
    /\ snow_table = {}
    /\ list_values \in FlushInitialLists
    /\ Fresh
    /\ run = 1
    /\ prev = NoPrev
    /\ value = <<>>
    /\ result = <<>>

\* flush: get_infoblox_ea_definition(EXT_ATTR_NAME)
FlushReadDefinition(resp) ==
    /\ pc = "Idle"
    /\ calls' = Append(calls, Call("ib_get", <<>>, resp))
    /\ IF EaReadOk(resp)
       THEN /\ current_values' = ValuesOf(list_values)
            /\ ea_ref' = EXT_ATTR_NAME
            /\ pc' = "Flushing"
            /\ exit_code' = exit_code
       ELSE /\ UNCHANGED <<current_values, ea_ref>>
            /\ pc' = "Done"
            /\ exit_code' = 1
    /\ UNCHANGED <<snow_table, list_values, branch, snow_locations, new_values,
                   updated_values, warnings, run, prev, value, result>>

\* flush: update_infoblox_ea_values(ea_ref)
FlushUpdate(resp) ==
    /\ pc = "Flushing"
    /\ calls' = Append(calls, Call("ib_put", flush_payload, resp))
    /\ list_values' = IF resp.applied THEN Entries(flush_payload) ELSE list_values
    /\ pc' = "Done"
    /\ exit_code' = IF PutOk(resp) THEN exit_code ELSE 1
    /\ UNCHANGED <<snow_table, mainVars, warnings, run, prev, value, result>>

FlushNext ==
    \/ \E resp \in GetResponses : FlushReadDefinition(resp)
    \/ \E resp \in PutResponses : FlushUpdate(resp)
    \/ StartRun

FlushSpec == FlushInit /\ [][FlushNext]_vars

(* ------------------ sanitize_value, function by function --------------- *)
SanitizeInputs ==
    { Pad(c, n) : c \in {65, 66}, n \in 0..MaxInputLen } \cup
    { Name_A_B, Name_US_NYC_HQ, Name_65, Name_70a, Name_70b }

SanitizeInit ==
    /\ snow_table = {}
    /\ list_values = <<>>
    /\ Fresh
    /\ run = 1
    /\ prev = NoPrev
    /\ value \in SanitizeInputs
    /\ result = <<>>

\* infoblox-importer.py: sanitize_value(value)
CallSanitize ==
    /\ pc = "Idle"
    /\ result' = <<sanitize_value(value)>>
    /\ warnings' = sanitize_value_log(value)
    /\ pc' = "sanitize_value"
    /\ UNCHANGED <<snow_table, list_values, mainVars, calls, exit_code, run, prev, value>>

\* flush_all_location_values.py: sanitize_value(value), max_len defaulted
CallFlushSanitize ==
    /\ pc = "Idle"
    /\ result' = <<flush_sanitize_value(value, FLUSH_MAX_LEN)>>
    /\ warnings' = flush_sanitize_value_log(value, FLUSH_MAX_LEN)
    /\ pc' = "flush_sanitize_value"
    /\ UNCHANGED <<snow_table, list_values, mainVars, calls, exit_code, run, prev, value>>

\* the payload update_infoblox_ea_values builds for the one-element list [value]
CallUpdatePayload ==
    /\ pc = "Idle"
    /\ result' = sanitized_values(<<value>>)
    /\ warnings' = UpdateWarnings(<<value>>)
    /\ pc' = "update_payload"
    /\ UNCHANGED <<snow_table, list_values, mainVars, calls, exit_code, run, prev, value>>

SanitizeNext == CallSanitize \/ CallFlushSanitize \/ CallUpdatePayload

SanitizeSpec == SanitizeInit /\ [][SanitizeNext]_vars

(* ======================= properties of the claims ====================== *)
\* what the properties say about a request, read off its recorded response
ReadFailed(c) == c.resp.exc \/ c.resp.status # 200 \/ ~c.resp.json_ok
DefinitionReadFailed(c) == ReadFailed(c) \/ ~c.resp.found
UpdateFailed(c) == c.resp.exc \/ c.resp.status \notin {200, 201}
CallFailed(c) ==
    IF c.kind = "snow_get" THEN ReadFailed(c)
    ELSE IF c.kind = "ib_get" THEN DefinitionReadFailed(c)
    ELSE UpdateFailed(c)
Puts == { i \in 1..Len(calls) : calls[i].kind = "ib_put" }
\* v is the first 64 characters of w (all of w when w is shorter)
IsFirst64Of(v, w) ==
    /\ Len(v) = (IF Len(w) > 64 THEN 64 ELSE Len(w))
    /\ \A i \in 1..Len(v) : v[i] = w[i]
\* a and b have the same first 64 characters
SameFirst64(a, b) ==
    LET la == IF Len(a) > 64 THEN 64 ELSE Len(a)
        lb == IF Len(b) > 64 THEN 64 ELSE Len(b)
    IN  la = lb /\ \A i \in 1..la : a[i] = b[i]
Occurrences(seq, x) == Cardinality({ i \in 1..Len(seq) : seq[i] = x })

\* C8: sanitize_value returns exactly the first 64 characters of a value
\* longer than 64 characters and logs a warning for it; it returns a value
\* of 64 characters or fewer unchanged and logs nothing. The payload built
\* for a single location name therefore holds the name's first 64 characters.
C8_SanitizeTruncatesTo64 ==
    /\ pc \in {"sanitize_value", "flush_sanitize_value", "update_payload"} =>
          /\ Len(result) = 1
          /\ IsFirst64Of(result[1], value)
          /\ Len(value) > 64 =>
                /\ Len(result[1]) = 64
                /\ Len(warnings) = 1
                /\ warnings[1].kind = "truncated"
                /\ warnings[1].value = value
          /\ Len(value) <= 64 => result[1] = value /\ warnings = <<>>

\* C8 witness: a 70-character name has been sanitized to its first 64
\* characters, with the warning recorded.
C8_Witness ==
    /\ pc = "sanitize_value"
    /\ Len(value) = 70
    /\ result = <<SubSeq(value, 1, 64)>>
    /\ Len(warnings) = 1

\* C1: idempotence. When a run in which every remote call succeeded is
\* followed by a second run in which every remote call succeeds, the second
\* run takes the no-change path and issues no update request.
C1_SecondRunIssuesNoUpdate ==
    (/\ run >= 2
     /\ prev.ran
     /\ prev.exit_code = 0
     /\ pc = "Done"
     /\ exit_code = 0)
    => (branch = "NoChangeNeeded" /\ Puts = {})

\* C2: in a run where the set of names fetched from ServiceNow equals the
\* set of values in the definition, the comparison takes the no-change
\* path: no update request is issued, the list in Infoblox is left alone
\* and the process ends with exit code 0.
C2_EqualSetsIssueNoUpdate ==
    (branch # "none" /\ snow_locations = current_values)
    => /\ branch = "NoChangeNeeded"
       /\ Puts = {}
       /\ ValuesOf(list_values) = current_values
       /\ pc = "Done"
       /\ exit_code = 0

\* C3: in a run where every remote call succeeds and the desired set differs
\* from the current set, the requests are, in this order, one ServiceNow
\* read, one definition read, one update carrying the desired values and one
\* verification read, and the run then ends with exit code 0; desired
\* {US/NYC/HQ, US/LA/West} over an empty list gives the payload
\* [US/LA/West, US/NYC/HQ].
C3_UpdatePathOrder ==
    LET order == <<"snow_get", "ib_get", "ib_put", "ib_get">>
    IN  (/\ \A i \in 1..Len(calls) : ~CallFailed(calls[i])
         /\ branch # "none" => snow_locations # current_values)
        => /\ Len(calls) <= 4
           /\ \A i \in 1..Len(calls) : calls[i].kind = order[i]
           /\ pc = "Done" => Len(calls) = 4 /\ exit_code = 0
           /\ Len(calls) >= 3 =>
                 /\ \A w \in snow_locations :
                       \E i \in 1..Len(calls[3].payload) :
                          IsFirst64Of(calls[3].payload[i], w)
                 /\ \A i \in 1..Len(calls[3].payload) :
                       \E w \in snow_locations : IsFirst64Of(calls[3].payload[i], w)
                 /\ (snow_locations = {Name_US_NYC_HQ, Name_US_LA_West}
                     /\ current_values = {})
                    => calls[3].payload = <<Name_US_LA_West, Name_US_NYC_HQ>>

\* C3 witness: the run of the example has ended after its four requests.
C3_Witness ==
    /\ pc = "Done"
    /\ exit_code = 0
    /\ snow_locations = {Name_US_NYC_HQ, Name_US_LA_West}
    /\ current_values = {}
    /\ Len(calls) = 4
    /\ calls[3].payload = <<Name_US_LA_West, Name_US_NYC_HQ>>
    /\ \A i \in 1..4 : ~CallFailed(calls[i])

\* C4: when the ServiceNow read fails (exception, status other than 200,
\* unparsable body) the process has exited with a non-zero code and the run
\* holds no Infoblox request, neither a definition read nor an update.
C4_SnowFailureStopsBeforeInfoblox ==
    (Len(calls) >= 1 /\ calls[1].kind = "snow_get" /\ ReadFailed(calls[1]))
    => /\ pc = "Done"
       /\ exit_code # 0
       /\ \A i \in 1..Len(calls) : calls[i].kind \notin {"ib_get", "ib_put"}

\* C4 witness: the ServiceNow read has answered HTTP 500.
C4_Witness ==
    /\ Len(calls) = 1
    /\ calls[1].kind = "snow_get"
    /\ ~calls[1].resp.exc
    /\ calls[1].resp.status = 500
    /\ exit_code = 1

\* C5: every error is terminal. A request that failed (exception, status
\* not accepted, unparsable body, no matching definition) is the last request
\* of its run and the process has exited with code 1: no update follows a
\* failed or empty definition read, no verification read a failed update.
C5_EveryErrorIsTerminal ==
    \A i \in 1..Len(calls) :
        CallFailed(calls[i]) => (i = Len(calls) /\ pc = "Done" /\ exit_code = 1)

\* C5 witness: the update has been refused with HTTP 500 after two good reads.
C5_Witness ==
    /\ Len(calls) = 3
    /\ calls[3].kind = "ib_put"
    /\ ~calls[3].resp.exc
    /\ calls[3].resp.status = 500
    /\ pc = "Done"
    /\ exit_code = 1

\* C7: deduplication. No value appears twice in a submitted payload; when
\* two distinct desired values sanitize to the same string, that string is
\* in the payload exactly once and a duplicate warning naming both original
\* values has been logged.
C7_PayloadDeduplicated ==
    \A p \in Puts :
        /\ \A i, j \in 1..Len(calls[p].payload) :
              calls[p].payload[i] = calls[p].payload[j] => i = j
        /\ \A a, b \in Range(new_values) :
              (a # b /\ SameFirst64(a, b))
              => \E v \in Range(calls[p].payload) :
                    /\ IsFirst64Of(v, a)
                    /\ IsFirst64Of(v, b)
                    /\ Occurrences(calls[p].payload, v) = 1
                    /\ \E k \in 1..Len(warnings) :
                          /\ warnings[k].kind = "duplicate"
                          /\ warnings[k].value = v
                          /\ {a, b} \subseteq Range(warnings[k].originals)

\* C7 witness: an update was sent for two 70-character names that share
\* their first 64 characters.
C7_Witness ==
    /\ Puts # {}
    /\ {Name_70a, Name_70b} \subseteq Range(new_values)
    /\ \E k \in 1..Len(warnings) : warnings[k].kind = "duplicate"

C10_DesiredAndPayloadWithin64 ==
    /\ branch # "none" =>
          /\ \A v \in snow_locations : Len(v) <= 64
          /\ \A i \in 1..Len(new_values) : Len(new_values[i]) <= 64
    /\ \A p \in Puts : \A i \in 1..Len(calls[p].payload) :
          Len(calls[p].payload[i]) <= 64

\* C10 amended: every value of a submitted payload is a sanitized string of
\* at most 64 characters, namely the first 64 characters of a desired value;
\* the desired values themselves are the trimmed names and may be longer.
C10_PayloadWithin64 ==
    \A p \in Puts : \A i \in 1..Len(calls[p].payload) :
        /\ Len(calls[p].payload[i]) <= 64
        /\ \E w \in Range(new_values) : IsFirst64Of(calls[p].payload[i], w)

\* C10 witness: an update was sent while a desired value had more than 64
\* characters.
C10_Witness ==
    /\ Puts # {}
    /\ \E i \in 1..Len(new_values) : Len(new_values[i]) > 64

\* C6: the flush workflow never calls ServiceNow; its requests are one
\* definition read and then, when the read returned a definition, exactly
\* one update whose payload is the one-element list ["CLEARED"], whatever
\* values the read returned.
C6_FlushSubmitsCleared ==
    /\ \A i \in 1..Len(calls) : calls[i].kind # "snow_get"
    /\ Len(calls) <= 2
    /\ Len(calls) >= 1 => calls[1].kind = "ib_get"
    /\ Len(calls) = 2 =>
          /\ calls[2].kind = "ib_put"
          /\ calls[2].payload = << <<67, 76, 69, 65, 82, 69, 68>> >>
    /\ (pc = "Done" /\ Len(calls) >= 1 /\ ~DefinitionReadFailed(calls[1]))
          => Len(calls) = 2

\* C6 witness: the flush has sent its update over a definition that held
\* two or more values, none of them CLEARED.
C6_Witness ==
    /\ pc = "Done"
    /\ Len(calls) = 2
    /\ calls[2].kind = "ib_put"
    /\ Cardinality(current_values) >= 2
    /\ CLEARED \notin current_values

====
